---- MODULE Spec2Model ----
(***************************************************************************)
(* Model of the DEX usage ETL (scripts/daily_etl.py, utils/utils.py,       *)
(* scripts/init_database.py): source locator, query builder, the three     *)
(* extraction passes, the load/merge into the DuckDB tables and the run    *)
(* ledger, driven by main() in normal and init (backfill) mode.            *)
(*                                                                         *)
(* Calendar dates are day numbers; a timestamp is [day, tod] with tod the  *)
(* second of the day.  Percentages are held in hundredths (DECIMAL(5,2)).  *)
(* The wall-clock columns created_at / last_updated / start_time /         *)
(* end_time are written but never read by any statement and are left out.  *)
(***************************************************************************)
EXTENDS Integers, Sequences, FiniteSets, TLC

\* ---------------------------------------------------------------- bounds
MaxToday == 4        \* the clock of the host advances up to this day
MaxRunId == 6        \* ledger sequence values handed out in one behaviour
MaxFaults == 1       \* environment failures injected in one behaviour
MaxPctDex == 6       \* dexes in one date of the percentage specification
MaxPctCount == 3     \* largest usage_count in the percentage specification
MaxCallDay == 3      \* latest day in a timestamp handed to the locator
MaxPaths == 3        \* longest path list handed to the query builder

\* ------------------------------------------------------- program constants
FirstToday == 3
InitDays == 2        \* config init.days of the modelled configuration
ChainList == <<"sol", "eth">>
SecondsPerDay == 86400

\* ------------------------------------------------------------ source data
Q == "\""
Raydium == <<Q, "Raydium", Q>>
Orca == <<Q, "Orca", Q>>
Meteora == <<Q, "Meteora", Q>>
NoDex == <<>>                  \* '$.dex' absent: JSON_EXTRACT gives SQL NULL
NullToken == "NULL"            \* SQL NULL in inputToken / outputToken
NullRequest == <<>>            \* SQL NULL in request; a payload p is <<p>>

Dex(name, weight) == [dex |-> name, weight |-> weight]

Rec(date, hour, order, inTok, outTok, request) ==
    [date |-> date, hour |-> hour, orderId |-> order,
     inputToken |-> inTok, outputToken |-> outTok, request |-> request]

\* request -> routePlans -> subRouters -> dexes
SourceFiles ==
    [c \in {"sol", "eth"} |->
       IF c = "sol" THEN
         [d \in 1..3 |->
            IF d = 1 THEN
              << Rec(1, 0, "o1", "USDC", "SOL",
                     << << << <<Dex(Raydium, 3), Dex(Meteora, 2)>> >> >> >>) >>
            ELSE IF d = 2 THEN
              << Rec(2, 1, "o2", "SOL", "USDT",
                     << << << <<Dex(Raydium, 3)>>, <<Dex(Orca, 5), Dex(NoDex, 1)>> >>,
                           << <<Dex(Raydium, 3)>> >> >> >>),
                 Rec(2, 1, "o3", "BAD", "SOL",
                     << << << <<Dex(Meteora, 2)>> >> >> >>),
                 Rec(2, 5, "o4", "SOL", "WETH",
                     << << << <<Dex(Orca, 5)>> >> >> >>),
                 Rec(2, 5, "o5", "USDC", "SOL", NullRequest) >>
            ELSE
              << Rec(3, 2, "o6", "USDC", NullToken,
                     << << << <<Dex(Orca, 5)>> >> >> >>),
                 Rec(3, 2, "o7", "USDC", "SOL",
                     << << << <<Dex(Raydium, 3)>>, <<>> >>, <<>> >> >>) >>]
       ELSE
         [d \in 2..3 |->
            IF d = 2 THEN
              << Rec(2, 7, "e1", "WETH", "USDC",
                     << << << <<Dex(Orca, 5), Dex(Orca, 5)>> >> >> >>),
                 Rec(2, 7, "e2", "DAI", "USDC",
                     << << << <<Dex(Raydium, 3)>> >> >> >>) >>
            ELSE
              << Rec(3, 9, "e3", "DAI", "USDC",
                     << << << <<Dex(Raydium, 3)>> >> >> >>) >>]]

\* config exclusions.tokens: None (empty YAML key), or a list
NoneTokens == [isNone |-> TRUE, list |-> <<>>]
TokenList(l) == [isNone |-> FALSE, list |-> l]
TokenChoices == {NoneTokens, TokenList(<<>>), TokenList(<<"BAD">>),
                 TokenList(<<"BAD", "WETH">>), TokenList(<<"DAI">>),
                 TokenList(<<"WETH", "DAI">>)}

\* ------------------------------------------------------------------ state
VARIABLES
    source,           \* the parquet files: chain -> date -> rows
    today,            \* the host's current UTC day (datetime.utcnow())
    config,           \* config.yaml: init.enabled and exclusions.tokens
    pc,               \* position of main(): idle, day, chain, finish
    init_mode,        \* main's init_mode local
    days,             \* days_back values main's loop has still to process
    window,           \* begin_time, end_time, run_date of process_single_day
    chain_idx,        \* position of the chain loop of process_single_day
    dex_usage_hourly, \* table
    dex_usage_daily,  \* table
    dex_usage_total,  \* table
    etl_run_log,      \* table
    etl_run_log_seq,  \* sequence: the value nextval returns next
    temp_dex_data,    \* whether the view exists
    last,             \* locals and outcome of the latest chain iteration
    faults,           \* environment failures injected so far
    call              \* the latest call made from outside the ETL run

\* ------------------------------------------------------------- generic
RECURSIVE SumF(_, _)
SumF(f, S) ==
    IF S = {} THEN 0
    ELSE LET x == CHOOSE y \in S : TRUE IN f[x] + SumF(f, S \ {x})

Range(s) == {s[i] : i \in 1..Len(s)}

\* ------------------------------------------------- utils.py: source locator
\* a timestamp text is the tuple of its fields <<day, hour, minute, second>>,
\* followed by whatever else the text holds
Strftime(ts) == <<ts.day, ts.tod \div 3600, (ts.tod % 3600) \div 60, ts.tod % 60>>

NoError == <<>>

\* str(e) of the ValueErrors of the locator, as pieces of text
TimeDataText == <<"time data", " does not match format">>
UnconvertedText == <<"unconverted data remains">>
RangeErrorText == <<"start time must not be later than end time">>
FormatErrorText(e) == <<"time format error, use 'YYYY-MM-DD HH:MM:SS': ">> \o e

\* "time data" in str(e)
Contains(text, piece) == \E i \in 1..Len(text) : text[i] = piece

\* the format "%Y-%m-%d %H:%M:%S" matches a prefix of the text
FieldsMatch(str) ==
    /\ Len(str) >= 4
    /\ str[2] \in 0..23 /\ str[3] \in 0..59 /\ str[4] \in 0..59

\* the ValueError of datetime.strptime, NoError when the text parses
StrptimeError(str) ==
    IF ~FieldsMatch(str) THEN TimeDataText
    ELSE IF Len(str) > 4 THEN UnconvertedText
    ELSE NoError

Strptime(str) == [day |-> str[1], tod |-> str[2] * 3600 + str[3] * 60 + str[4]]

Before(a, b) == a.day < b.day \/ (a.day = b.day /\ a.tod < b.tod)

PlusDays(ts, n) == [day |-> ts.day + n, tod |-> ts.tod]

\* the while loop of get_files_for_suffix: one pattern per step of one day
RECURSIVE FileLoop(_, _, _)
FileLoop(current_date, end_date, suffix) ==
    IF Before(end_date, current_date) THEN <<>>
    ELSE <<[date |-> current_date.day, suffix |-> suffix]>>
           \o FileLoop(PlusDays(current_date, 1), end_date, suffix)

\* the except clause: a ValueError whose text holds "time data" is raised
\* again under the format message, any other as it is
Reraise(e) ==
    [ok |-> FALSE, files |-> <<>>,
     err |-> IF Contains(e, "time data") THEN FormatErrorText(e) ELSE e]

\* the try block once both texts are parsed
FilesBetween(start_date, end_date, suffix) ==
    IF Before(end_date, start_date)
    THEN Reraise(RangeErrorText)
    ELSE [ok |-> TRUE, files |-> FileLoop(start_date, end_date, suffix),
          err |-> NoError]

\* ok is FALSE when the call raises, err is then the text of the ValueError
get_files_for_suffix(begin_time, end_time, suffix) ==
    IF StrptimeError(begin_time) # NoError THEN Reraise(StrptimeError(begin_time))
    ELSE IF StrptimeError(end_time) # NoError THEN Reraise(StrptimeError(end_time))
    ELSE FilesBetween(Strptime(begin_time), Strptime(end_time), suffix)

get_parquet_files(chain_id, begin_time, end_time) ==
    LET base == get_files_for_suffix(begin_time, end_time, ".parquet")
    IN [ok |-> base.ok, err |-> base.err,
        files |-> [i \in 1..Len(base.files) |->
                     [chain |-> chain_id, date |-> base.files[i].date,
                      suffix |-> base.files[i].suffix]]]

\* -------------------------------------------------- utils.py: query builder
\* variant: a path is read once however often it is listed (UNION)
RECURSIVE Distinct(_)
Distinct(paths) ==
    IF paths = <<>> THEN <<>>
    ELSE <<Head(paths)>> \o Distinct(SelectSeq(Tail(paths), LAMBDA q : q # Head(paths)))

generate_union_sql_Distinct(file_paths, file_format) ==
    IF Len(file_paths) = 0
    THEN [ok |-> FALSE, selects |-> <<>>]
    ELSE [ok |-> TRUE,
          selects |-> [i \in 1..Len(Distinct(file_paths)) |->
                         [format |-> file_format, path |-> Distinct(file_paths)[i]]]]

generate_union_sql(file_paths, file_format) ==
    IF Len(file_paths) = 0
    THEN [ok |-> FALSE, selects |-> <<>>]
    ELSE [ok |-> TRUE,
          selects |-> [i \in 1..Len(file_paths) |->
                         [format |-> file_format, path |-> file_paths[i]]]]

generate_union_sql_from_parquet(file_paths) == generate_union_sql(file_paths, "parquet")

\* read_parquet(pattern) raises when the glob matches no file
HasFiles(path) ==
    /\ path.chain \in DOMAIN source
    /\ path.date \in DOMAIN source[path.chain]

ViewBinds(selects) == \A i \in 1..Len(selects) : HasFiles(selects[i].path)

\* the rows of temp_dex_data: UNION ALL keeps every row of every read
ViewRows(selects) ==
    UNION { { [id |-> <<i, k>>,
               rec |-> source[selects[i].path.chain][selects[i].path.date][k]]
              : k \in 1..Len(source[selects[i].path.chain][selects[i].path.date]) }
            : i \in 1..Len(selects) }

\* --------------------------------------------- daily_etl.py: get_date_range
get_date_range(now_day, days_back) ==
    LET end0 == [day |-> now_day, tod |-> 0]
        begin_date == PlusDays(end0, 0 - days_back)
        end_date == PlusDays(begin_date, 1)
    IN [begin_time |-> Strftime(begin_date), end_time |-> Strftime(end_date)]

\* ------------------------------------------ daily_etl.py: extract_dex_usage
\* " AND ".join of two inequality clauses per token
RECURSIVE ExclusionFilter(_)
ExclusionFilter(tokens) ==
    IF Len(tokens) = 0 THEN <<>>
    ELSE <<[col |-> "inputToken", tok |-> Head(tokens)],
           [col |-> "outputToken", tok |-> Head(tokens)]>>
           \o ExclusionFilter(Tail(tokens))

\* SQL three-valued  col != 'tok'
NotEq3(v, tok) == IF v = NullToken THEN "U" ELSE IF v # tok THEN "T" ELSE "F"

ClauseValue(rec, clause) ==
    IF clause.col = "inputToken" THEN NotEq3(rec.inputToken, clause.tok)
    ELSE NotEq3(rec.outputToken, clause.tok)

\* variant: the clauses are joined by OR
WhereKeeps_AnyClause(rec, filter) ==
    /\ rec.request # NullRequest
    /\ \E i \in 1..Len(filter) : ClauseValue(rec, filter[i]) = "T"

\* WHERE request IS NOT NULL AND <exclusion_filter>: a row passes when the
\* whole conjunction is TRUE
WhereKeeps(rec, filter) ==
    /\ rec.request # NullRequest
    /\ \A i \in 1..Len(filter) : ClauseValue(rec, filter[i]) = "T"

\* with no token the text is "... AND )" and the statement does not parse
QueryParses(filter) == Len(filter) > 0

\* dex_extracted -> dex_flattened -> dex_details -> dex_final
dex_final(rows, filter) ==
    UNION { LET plans == r.rec.request[1] IN
            UNION { UNION { { [id |-> <<r.id, p, s, x>>,
                               date |-> r.rec.date, hour |-> r.rec.hour,
                               orderId |-> r.rec.orderId,
                               dex_name |-> plans[p][s][x].dex,
                               weight |-> plans[p][s][x].weight]
                              : x \in {y \in 1..Len(plans[p][s]) :
                                         plans[p][s][y].dex # NoDex} }
                            : s \in 1..Len(plans[p]) }
                    : p \in 1..Len(plans) }
            : r \in {v \in rows : WhereKeeps(v.rec, filter)} }

\* REPLACE(dex_name, '"', '')
StripQuotes(raw) == SelectSeq(raw, LAMBDA ch : ch # Q)

\* variant: the share is cut to two decimals instead of rounded
Percentage_Truncate(n, d) == (10000 * n) \div d

\* ROUND(CAST(n AS DECIMAL) * 100.0 / d, 2), in hundredths, half away from zero
Percentage(n, d) == (20000 * n + d) \div (2 * d)

Weights(grp) == SumF([l \in grp |-> l.weight], grp)

Orders(grp) == Cardinality({l.orderId : l \in grp})

\* variant: usage_count is COUNT(DISTINCT orderId) instead of COUNT(*)
HourlyStats_DistinctOrders(chain_id, F) ==
    { LET grp == {l \in F : <<l.date, l.hour, l.dex_name>> = k}
      IN [chain_id |-> chain_id, date |-> k[1], hour |-> k[2],
          dex_name |-> StripQuotes(k[3]),
          usage_count |-> Orders(grp),
          total_weight |-> Weights(grp),
          unique_orders |-> Orders(grp)]
      : k \in {<<l.date, l.hour, l.dex_name>> : l \in F} }

\* the final SELECT of each pass over its dex_final F
HourlyStats(chain_id, F) ==
    { LET grp == {l \in F : <<l.date, l.hour, l.dex_name>> = k}
      IN [chain_id |-> chain_id, date |-> k[1], hour |-> k[2],
          dex_name |-> StripQuotes(k[3]),
          usage_count |-> Cardinality(grp),
          total_weight |-> Weights(grp),
          unique_orders |-> Orders(grp)]
      : k \in {<<l.date, l.hour, l.dex_name>> : l \in F} }

DailyStats(chain_id, F) ==
    { LET grp == {l \in F : <<l.date, l.dex_name>> = k}
      IN [chain_id |-> chain_id, date |-> k[1],
          dex_name |-> StripQuotes(k[2]),
          usage_count |-> Cardinality(grp),
          total_weight |-> Weights(grp),
          unique_orders |-> Orders(grp),
          percentage |-> Percentage(Cardinality(grp),
                                    Cardinality({l \in F : l.date = k[1]}))]
      : k \in {<<l.date, l.dex_name>> : l \in F} }

TotalStats(chain_id, F) ==
    { LET grp == {l \in F : l.dex_name = k}
      IN [chain_id |-> chain_id,
          dex_name |-> StripQuotes(k),
          usage_count |-> Cardinality(grp),
          total_weight |-> Weights(grp),
          unique_orders |-> Orders(grp),
          percentage |-> Percentage(Cardinality(grp), Cardinality(F))]
      : k \in {l.dex_name : l \in F} }

HourlyQuery(chain_id, rows, filter) == HourlyStats(chain_id, dex_final(rows, filter))

DailyQuery(chain_id, rows, filter) == DailyStats(chain_id, dex_final(rows, filter))

TotalQuery(chain_id, rows, filter) == TotalStats(chain_id, dex_final(rows, filter))

\* a DataFrame, or None
None == [none |-> TRUE, rows |-> {}]
Frame(rows) == [none |-> FALSE, rows |-> rows]

\* str(e) of the exceptions that reach process_single_day, as pieces of text
TypeErrorText == <<"'", "NoneType", "'", " object is not iterable">>
ConstraintText == <<"Constraint Error: Duplicate key ", Q, "key", Q,
                    " violates primary key constraint">>
IOErrorText == <<"IO Error: could not write to the database file">>

Faults == {"none", "read", "hourly_q", "daily_q", "total_q", "total_merge"}

NoData == [hourly_df |-> None, daily_df |-> None, total_df |-> None,
           view |-> FALSE, exc |-> NoError]

\* variant: one try around the three passes
ExtractPasses_OneTry(chain_id, rows, excluded_tokens, fault) ==
    IF excluded_tokens.isNone
    THEN [hourly_df |-> None, daily_df |-> None, total_df |-> None,
          view |-> TRUE, exc |-> TypeErrorText]
    ELSE IF ~QueryParses(ExclusionFilter(excluded_tokens.list))
            \/ fault \in {"hourly_q", "daily_q", "total_q"}
    THEN [hourly_df |-> None, daily_df |-> None, total_df |-> None,
          view |-> FALSE, exc |-> NoError]
    ELSE [hourly_df |-> Frame(HourlyQuery(chain_id, rows,
                                          ExclusionFilter(excluded_tokens.list))),
          daily_df |-> Frame(DailyQuery(chain_id, rows,
                                        ExclusionFilter(excluded_tokens.list))),
          total_df |-> Frame(TotalQuery(chain_id, rows,
                                        ExclusionFilter(excluded_tokens.list))),
          view |-> FALSE, exc |-> NoError]

\* lines 93-284: the view exists; the three passes, each in its own try
ExtractPasses(chain_id, rows, excluded_tokens, fault) ==
    IF excluded_tokens.isNone
    THEN \* line 94 iterates None: TypeError leaves the function, the view stays
         [hourly_df |-> None, daily_df |-> None, total_df |-> None,
          view |-> TRUE, exc |-> TypeErrorText]
    ELSE [hourly_df |-> IF QueryParses(ExclusionFilter(excluded_tokens.list))
                           /\ fault # "hourly_q"
                        THEN Frame(HourlyQuery(chain_id, rows,
                                               ExclusionFilter(excluded_tokens.list)))
                        ELSE None,
          daily_df |-> IF QueryParses(ExclusionFilter(excluded_tokens.list))
                          /\ fault # "daily_q"
                       THEN Frame(DailyQuery(chain_id, rows,
                                             ExclusionFilter(excluded_tokens.list)))
                       ELSE None,
          total_df |-> IF QueryParses(ExclusionFilter(excluded_tokens.list))
                          /\ fault # "total_q"
                       THEN Frame(TotalQuery(chain_id, rows,
                                             ExclusionFilter(excluded_tokens.list)))
                       ELSE None,
          view |-> FALSE, exc |-> NoError]

\* lines 82-91: the union, the view, and the catch-all around them
ExtractView(chain_id, union_sql, excluded_tokens, fault) ==
    IF ~union_sql.ok \/ ~ViewBinds(union_sql.selects) \/ fault = "read"
    THEN NoData
    ELSE ExtractPasses(chain_id, ViewRows(union_sql.selects), excluded_tokens, fault)

\* lines 74-80: a return before the view is touched
ExtractFiles(chain_id, parquet_files, excluded_tokens, fault) ==
    IF ~parquet_files.ok \/ Len(parquet_files.files) = 0
    THEN [NoData EXCEPT !.view = temp_dex_data]
    ELSE ExtractView(chain_id, generate_union_sql_from_parquet(parquet_files.files),
                     excluded_tokens, fault)

\* result of extract_dex_usage: the three frames, whether the view is left
\* behind, and the exception that escapes (NoError if none)
extract_dex_usage(chain_id, begin_time, end_time, excluded_tokens, fault) ==
    ExtractFiles(chain_id, get_parquet_files(chain_id, begin_time, end_time),
                 excluded_tokens, fault)

\* --------------------------------------------------- daily_etl.py: load_data
SameHourlyKey(a, b) ==
    /\ a.chain_id = b.chain_id /\ a.date = b.date
    /\ a.hour = b.hour /\ a.dex_name = b.dex_name

SameDailyKey(a, b) ==
    a.chain_id = b.chain_id /\ a.date = b.date /\ a.dex_name = b.dex_name

SameTotalKey(a, b) == a.chain_id = b.chain_id /\ a.dex_name = b.dex_name

\* df['chain_id'].iloc[0]
FirstChain(df) == (CHOOSE r \in df.rows : TRUE).chain_id

\* variant: the DELETE is keyed by date alone
DeleteForDate_AnyChain(table, chain_id, run_date) ==
    {r \in table : r.date # run_date}

\* DELETE ... WHERE chain_id = c AND date = run_date
DeleteForDate(table, chain_id, run_date) ==
    {r \in table : ~(r.chain_id = chain_id /\ r.date = run_date)}

\* variant: the DELETE for run_date runs before the frame is looked at
LoadHourly_DeleteFirst(table, df, run_date) ==
    IF df.none \/ df.rows = {}
    THEN [table |-> {r \in table : r.date # run_date}, exc |-> NoError]
    ELSE IF \E n \in df.rows :
              \E e \in DeleteForDate(table, FirstChain(df), run_date) :
                 SameHourlyKey(n, e)
    THEN [table |-> DeleteForDate(table, FirstChain(df), run_date),
          exc |-> ConstraintText]
    ELSE [table |-> DeleteForDate(table, FirstChain(df), run_date) \cup df.rows,
          exc |-> NoError]

\* delete-then-insert of dex_usage_hourly; each statement commits on its own,
\* the INSERT is rejected as a whole on a primary-key conflict
LoadHourly(table, df, run_date) ==
    IF df.none \/ df.rows = {} THEN [table |-> table, exc |-> NoError]
    ELSE LET kept == DeleteForDate(table, FirstChain(df), run_date)
         IN IF \E n \in df.rows : \E e \in kept : SameHourlyKey(n, e)
            THEN [table |-> kept, exc |-> ConstraintText]
            ELSE [table |-> kept \cup df.rows, exc |-> NoError]

LoadDaily(table, df, run_date) ==
    IF df.none \/ df.rows = {} THEN [table |-> table, exc |-> NoError]
    ELSE LET kept == DeleteForDate(table, FirstChain(df), run_date)
         IN IF \E n \in df.rows : \E e \in kept : SameDailyKey(n, e)
            THEN [table |-> kept, exc |-> ConstraintText]
            ELSE [table |-> kept \cup df.rows, exc |-> NoError]

\* variant: the UPDATE stores the window value instead of adding it
UpsertTotal_Replace(table, w, run_date) ==
    IF \E e \in table : SameTotalKey(e, w)
    THEN { IF SameTotalKey(e, w)
           THEN [e EXCEPT !.usage_count = w.usage_count,
                          !.total_weight = w.total_weight,
                          !.unique_orders = w.unique_orders]
           ELSE e
           : e \in table }
    ELSE table \cup {[chain_id |-> w.chain_id, dex_name |-> w.dex_name,
                      usage_count |-> w.usage_count,
                      total_weight |-> w.total_weight,
                      unique_orders |-> w.unique_orders,
                      percentage |-> w.percentage,
                      first_seen |-> run_date]}

\* variant: a re-merge is harmless, the larger of the two values is stored
Larger(a, b) == IF a >= b THEN a ELSE b

UpsertTotal_KeepLarger(table, w, run_date) ==
    IF \E e \in table : SameTotalKey(e, w)
    THEN { IF SameTotalKey(e, w)
           THEN [e EXCEPT !.usage_count = Larger(e.usage_count, w.usage_count),
                          !.total_weight = Larger(e.total_weight, w.total_weight),
                          !.unique_orders = Larger(e.unique_orders, w.unique_orders)]
           ELSE e
           : e \in table }
    ELSE table \cup {[chain_id |-> w.chain_id, dex_name |-> w.dex_name,
                      usage_count |-> w.usage_count,
                      total_weight |-> w.total_weight,
                      unique_orders |-> w.unique_orders,
                      percentage |-> w.percentage,
                      first_seen |-> run_date]}

\* one pass of the upsert loop body for window row w
UpsertTotal(table, w, run_date) ==
    IF \E e \in table : SameTotalKey(e, w)
    THEN { IF SameTotalKey(e, w)
           THEN [e EXCEPT !.usage_count = e.usage_count + w.usage_count,
                          !.total_weight = e.total_weight + w.total_weight,
                          !.unique_orders = e.unique_orders + w.unique_orders]
           ELSE e
           : e \in table }
    ELSE table \cup {[chain_id |-> w.chain_id, dex_name |-> w.dex_name,
                      usage_count |-> w.usage_count,
                      total_weight |-> w.total_weight,
                      unique_orders |-> w.unique_orders,
                      percentage |-> w.percentage,
                      first_seen |-> run_date]}

RECURSIVE UpsertAll(_, _, _)
UpsertAll(table, rows, run_date) ==
    IF rows = {} THEN table
    ELSE LET w == CHOOSE r \in rows : TRUE
         IN UpsertAll(UpsertTotal(table, w, run_date), rows \ {w}, run_date)

\* variant: the subquery sums the whole table, not the chain
RecalcPercentages_AllChains(table, chain_id) ==
    LET sum == SumF([e \in table |-> e.usage_count], table)
    IN { IF e.chain_id = chain_id
         THEN [e EXCEPT !.percentage = Percentage(e.usage_count, sum)]
         ELSE e
         : e \in table }

\* UPDATE dex_usage_total t SET percentage = ... WHERE t.chain_id = c
RecalcPercentages(table, chain_id) ==
    LET mine == {e \in table : e.chain_id = chain_id}
        sum == SumF([e \in mine |-> e.usage_count], mine)
    IN { IF e.chain_id = chain_id
         THEN [e EXCEPT !.percentage = Percentage(e.usage_count, sum)]
         ELSE e
         : e \in table }

\* the rows a loop in ORDER BY usage_count DESC order can have passed when it
\* is interrupted: any set closed under "has a larger count"
IsPrefix(done, df) ==
    /\ done \subseteq df.rows
    /\ \A a \in done : \A b \in df.rows \ done : a.usage_count >= b.usage_count

\* variant: the chain's rows are replaced by the window, as for hourly/daily
MergeTotal_Replace(table, df, run_date, done) ==
    IF df.none \/ df.rows = {} THEN [table |-> table, exc |-> NoError]
    ELSE [table |-> RecalcPercentages(
                       UpsertAll({e \in table : e.chain_id # FirstChain(df)},
                                 df.rows, run_date),
                       FirstChain(df)),
          exc |-> NoError]

\* the upsert of dex_usage_total; done is the part of the frame the loop
\* passes, the whole frame unless the storage fails under it
MergeTotal(table, df, run_date, done) ==
    IF df.none \/ df.rows = {} THEN [table |-> table, exc |-> NoError]
    ELSE IF done # df.rows
    THEN [table |-> UpsertAll(table, done, run_date), exc |-> IOErrorText]
    ELSE [table |-> RecalcPercentages(UpsertAll(table, df.rows, run_date),
                                      FirstChain(df)),
          exc |-> NoError]

\* lines 331-376, reached when the two replaces went through
LoadAfterDaily(lh, ld, lt) ==
    [hourly |-> lh.table, daily |-> ld.table, total |-> lt.table, exc |-> lt.exc]

\* lines 316-329, reached when the hourly replace went through
LoadAfterHourly(lh, ld, t, total_df, run_date, done) ==
    IF ld.exc # NoError
    THEN [hourly |-> lh.table, daily |-> ld.table, total |-> t, exc |-> ld.exc]
    ELSE LoadAfterDaily(lh, ld, MergeTotal(t, total_df, run_date, done))

LoadFrom(lh, d, t, daily_df, total_df, run_date, done) ==
    IF lh.exc # NoError
    THEN [hourly |-> lh.table, daily |-> d, total |-> t, exc |-> lh.exc]
    ELSE LoadAfterHourly(lh, LoadDaily(d, daily_df, run_date), t, total_df,
                         run_date, done)

\* variant: the three sub-loads are one transaction, rolled back on error
Rollback(r, h, d, t) ==
    IF r.exc # NoError
    THEN [hourly |-> h, daily |-> d, total |-> t, exc |-> r.exc]
    ELSE r

load_data_Transactional(h, d, t, hourly_df, daily_df, total_df, run_date, done) ==
    Rollback(LoadFrom(LoadHourly(h, hourly_df, run_date), d, t, daily_df,
                      total_df, run_date, done),
             h, d, t)

\* an exception of one statement leaves the function: what the earlier
\* statements stored stays stored
load_data(h, d, t, hourly_df, daily_df, total_df, run_date, done) ==
    LoadFrom(LoadHourly(h, hourly_df, run_date), d, t, daily_df, total_df,
             run_date, done)

\* ------------------------------------------------- daily_etl.py: log_etl_run
\* the message is pasted between single quotes: a quote inside it ends the
\* literal early and the INSERT does not parse
SqlLiteralParses(text) == \A i \in 1..Len(text) : text[i] # "'"

ParserText == <<"Parser Error: syntax error at or near ", Q, "NoneType", Q>>

\* variant: the row of an earlier attempt for the same chain and date is
\* replaced
log_etl_run_Upsert(log, seq, chain_id, run_date, status, records_processed, error_message) ==
    IF SqlLiteralParses(error_message)
    THEN [log |-> {r \in log : ~(r.chain_id = chain_id /\ r.run_date = run_date)}
                    \cup {[run_id |-> seq, chain_id |-> chain_id,
                            run_date |-> run_date, status |-> status,
                            records_processed |-> records_processed,
                            error_message |-> error_message]},
          seq |-> seq + 1, exc |-> NoError]
    ELSE [log |-> log, seq |-> seq + 1, exc |-> ParserText]

log_etl_run(log, seq, chain_id, run_date, status, records_processed, error_message) ==
    LET run_id == seq
    IN IF SqlLiteralParses(error_message)
       THEN [log |-> log \cup {[run_id |-> run_id, chain_id |-> chain_id,
                                run_date |-> run_date, status |-> status,
                                records_processed |-> records_processed,
                                error_message |-> error_message]},
             seq |-> seq + 1, exc |-> NoError]
       ELSE [log |-> log, seq |-> seq + 1, exc |-> ParserText]

vars == <<source, today, config, pc, init_mode, days, window, chain_idx,
          dex_usage_hourly, dex_usage_daily, dex_usage_total, etl_run_log,
          etl_run_log_seq, temp_dex_data, last, faults, call>>

tables == <<dex_usage_hourly, dex_usage_daily, dex_usage_total, etl_run_log,
            etl_run_log_seq, temp_dex_data>>

NoCall == [fn |-> "none"]

NoWindow == [begin_time |-> <<0, 0, 0, 0>>, end_time |-> <<0, 0, 0, 0>>, run_date |-> 0]

NoAttempt ==
    [chain_id |-> "", run_date |-> 0, tokens |-> NoneTokens,
     begin_time |-> <<0, 0, 0, 0>>, end_time |-> <<0, 0, 0, 0>>,
     hourly_df |-> None, daily_df |-> None, total_df |-> None,
     outcome |-> "none", error |-> NoError, fault |-> "none"]

\* init_database.py: four empty tables and the sequence START 1
Init ==
    /\ source = SourceFiles
    /\ today = FirstToday
    /\ config \in [init_enabled : BOOLEAN, tokens : TokenChoices]
    /\ pc = "idle"
    /\ init_mode = FALSE
    /\ days = <<>>
    /\ window = NoWindow
    /\ chain_idx = 1
    /\ dex_usage_hourly = {}
    /\ dex_usage_daily = {}
    /\ dex_usage_total = {}
    /\ etl_run_log = {}
    /\ etl_run_log_seq = 1
    /\ temp_dex_data = FALSE
    /\ last = NoAttempt
    /\ faults = 0
    /\ call = NoCall

\* range(init_days, 0, -1)
RECURSIVE RangeDown(_)
RangeDown(n) == IF n <= 0 THEN <<>> ELSE <<n>> \o RangeDown(n - 1)

\* main(), up to the first call of process_single_day
MainStart ==
    /\ pc = "idle"
    /\ init_mode' = config.init_enabled
    /\ days' = IF config.init_enabled THEN RangeDown(InitDays) ELSE <<1>>
    /\ pc' = "day"
    /\ UNCHANGED <<source, today, config, window, chain_idx, tables, last, faults, call>>

\* process_single_day, lines 409-417: the date range is fixed for all chains
ProcessSingleDayBegin ==
    /\ pc = "day"
    /\ LET dr == get_date_range(today, Head(days))
       IN window' = [begin_time |-> dr.begin_time, end_time |-> dr.end_time,
                     run_date |-> Strptime(dr.begin_time).day]
    /\ chain_idx' = 1
    /\ pc' = "chain"
    /\ UNCHANGED <<source, today, config, init_mode, days, tables, last, faults, call>>

Rows(df) == IF df.none THEN 0 ELSE Cardinality(df.rows)

\* the end of one iteration: the tables, the ledger and the loop position
ProcessChainEnd(fault, ex, loaded, ld, exc, lg) ==
    /\ dex_usage_hourly' = IF loaded THEN ld.hourly ELSE dex_usage_hourly
    /\ dex_usage_daily' = IF loaded THEN ld.daily ELSE dex_usage_daily
    /\ dex_usage_total' = IF loaded THEN ld.total ELSE dex_usage_total
    /\ etl_run_log' = lg.log
    /\ etl_run_log_seq' = lg.seq
    /\ temp_dex_data' = ex.view
    /\ last' = [chain_id |-> ChainList[chain_idx], run_date |-> window.run_date,
                tokens |-> config.tokens,
                begin_time |-> window.begin_time, end_time |-> window.end_time,
                hourly_df |-> ex.hourly_df, daily_df |-> ex.daily_df,
                total_df |-> ex.total_df,
                outcome |-> IF lg.exc # NoError THEN "escaped"
                            ELSE IF exc = NoError THEN "success" ELSE "failed",
                error |-> exc, fault |-> fault]
    /\ faults' = IF fault = "none" THEN faults ELSE faults + 1
    /\ IF lg.exc # NoError
       THEN \* the handler's own INSERT raised: the exception leaves
            \* process_single_day and main, the process dies
            /\ pc' = "idle"
            /\ days' = <<>>
            /\ chain_idx' = 1
       ELSE IF chain_idx = Len(ChainList)
       THEN /\ days' = Tail(days)
            /\ pc' = IF Len(days) = 1 THEN "finish" ELSE "day"
            /\ chain_idx' = 1
       ELSE /\ chain_idx' = chain_idx + 1
            /\ UNCHANGED <<days, pc>>
    /\ UNCHANGED <<source, today, config, init_mode, window, call>>

\* lines 436-445: one ledger row, success with the record count or failed
\* with str(e)
ProcessChainLog(fault, ex, loaded, ld, exc, records) ==
    ProcessChainEnd(fault, ex, loaded, ld, exc,
        IF exc = NoError
        THEN log_etl_run(etl_run_log, etl_run_log_seq, ChainList[chain_idx],
                         window.run_date, "success", records, NoError)
        ELSE log_etl_run(etl_run_log, etl_run_log_seq, ChainList[chain_idx],
                         window.run_date, "failed", 0, exc))

\* variant: the record count takes in the rows of the total frame
ProcessChainLoad_CountsTotal(fault, ex, has_data, ld) ==
    ProcessChainLog(fault, ex, ex.exc = NoError /\ has_data, ld,
        IF ex.exc # NoError THEN ex.exc ELSE IF has_data THEN ld.exc ELSE NoError,
        IF has_data
        THEN Rows(ex.hourly_df) + Rows(ex.daily_df) + Rows(ex.total_df)
        ELSE 0)

\* lines 428-434
ProcessChainLoad(fault, ex, has_data, ld) ==
    ProcessChainLog(fault, ex, ex.exc = NoError /\ has_data, ld,
        IF ex.exc # NoError THEN ex.exc ELSE IF has_data THEN ld.exc ELSE NoError,
        IF has_data THEN Rows(ex.hourly_df) + Rows(ex.daily_df) ELSE 0)

\* one iteration of the chain loop of process_single_day (lines 419-445);
\* done is the part of the total frame the upsert loop gets through
ProcessChain(fault, ex) ==
    \E done \in SUBSET ex.total_df.rows :
       /\ IF fault = "total_merge"
          THEN done # ex.total_df.rows /\ IsPrefix(done, ex.total_df)
          ELSE done = ex.total_df.rows
       /\ ProcessChainLoad(fault, ex,
             ~ex.hourly_df.none \/ ~ex.daily_df.none \/ ~ex.total_df.none,
             load_data(dex_usage_hourly, dex_usage_daily, dex_usage_total,
                       ex.hourly_df, ex.daily_df, ex.total_df,
                       window.run_date, done))

AttemptWith(fault_set) ==
    /\ pc = "chain"
    /\ etl_run_log_seq <= MaxRunId
    /\ \E fault \in fault_set :
         /\ fault # "none" => faults < MaxFaults
         /\ ProcessChain(fault,
               extract_dex_usage(ChainList[chain_idx], window.begin_time,
                                 window.end_time, config.tokens, fault))

Attempt == AttemptWith(Faults)

\* main(), after the loop: init mode rewrites the config (lines 530-534)
MainFinish ==
    /\ pc = "finish"
    /\ pc' = "idle"
    /\ config' = IF init_mode THEN [config EXCEPT !.init_enabled = FALSE] ELSE config
    /\ UNCHANGED <<source, today, init_mode, days, window, chain_idx, tables, last, faults, call>>

\* midnight UTC passes on the host
AdvanceDay ==
    /\ today < MaxToday
    /\ today' = today + 1
    /\ UNCHANGED <<source, config, pc, init_mode, days, window, chain_idx, tables, last, faults, call>>

\* variant: CREATE OR REPLACE TABLE
CreateTable_OrReplace(exists, table) == {}

\* init_database.py on the database of the model, where the four tables and
\* the sequence exist: CREATE ... IF NOT EXISTS
CreateTableIfNotExists(exists, table) == IF exists THEN table ELSE {}

\* variant: CREATE OR REPLACE SEQUENCE
CreateSequence_OrReplace(exists, seq) == 1

CreateSequenceIfNotExists(exists, seq) == IF exists THEN seq ELSE 1

\* a run of init_database.py between two runs of the ETL (the database file
\* is locked while the ETL has it open)
InitDatabase ==
    /\ pc = "idle"
    /\ dex_usage_hourly' = CreateTableIfNotExists(TRUE, dex_usage_hourly)
    /\ dex_usage_daily' = CreateTableIfNotExists(TRUE, dex_usage_daily)
    /\ dex_usage_total' = CreateTableIfNotExists(TRUE, dex_usage_total)
    /\ etl_run_log' = CreateTableIfNotExists(TRUE, etl_run_log)
    /\ etl_run_log_seq' = CreateSequenceIfNotExists(TRUE, etl_run_log_seq)
    /\ call' = [fn |-> "init_database",
                \* lines 121-131: the row count of each table is printed
                counts |-> <<Cardinality(dex_usage_hourly'),
                             Cardinality(dex_usage_daily'),
                             Cardinality(dex_usage_total'),
                             Cardinality(etl_run_log')>>]
    /\ UNCHANGED <<source, today, config, pc, init_mode, days, window, chain_idx,
                   temp_dex_data, last, faults>>

Next ==
    MainStart \/ ProcessSingleDayBegin \/ Attempt \/ MainFinish \/ AdvanceDay
      \/ InitDatabase

Spec == Init /\ [][Next]_vars

\* ------------------------------------------- the daily percentage on its own
\* names of the dexes of a drawn source day
PctDexNames == <<"A", "B", "C", "D", "E", "F", "G", "H">>

\* one record per dex i, with counts[i] leaves of that dex in one sub-router
PctDay(counts) ==
    [i \in 1..Len(counts) |->
       Rec(2, 0, PctDexNames[i], "USDC", "SOL",
           << << << [k \in 1..counts[i] |-> Dex(<<Q, PctDexNames[i], Q>>, 1)] >> >> >>)]

\* files of chain sol for day 2 (drawn) and day 3 (no rows)
PctSource(counts) ==
    [c \in {"sol"} |-> [d \in 2..3 |-> IF d = 2 THEN PctDay(counts) ELSE <<>>]]

\* the drawn usage counts, one per dex; the sum of the shares does not depend
\* on which dex has which count, so the counts are drawn in ascending order
PctCounts ==
    UNION {{c \in [1..n -> 1..MaxPctCount] :
              \A i \in 1..(n - 1) : c[i] <= c[i + 1]} : n \in 1..MaxPctDex}

InitPct ==
    /\ source \in {PctSource(counts) : counts \in PctCounts}
    /\ today = FirstToday
    /\ config = [init_enabled |-> FALSE, tokens |-> TokenList(<<"BAD">>)]
    /\ pc = "idle"
    /\ init_mode = FALSE
    /\ days = <<>>
    /\ window = NoWindow
    /\ chain_idx = 1
    /\ dex_usage_hourly = {}
    /\ dex_usage_daily = {}
    /\ dex_usage_total = {}
    /\ etl_run_log = {}
    /\ etl_run_log_seq = 1
    /\ temp_dex_data = FALSE
    /\ last = NoAttempt
    /\ faults = 0
    /\ call = NoCall

AttemptSound == AttemptWith({"none"})

NextPct == MainStart \/ ProcessSingleDayBegin \/ AttemptSound \/ MainFinish

SpecPct == InitPct /\ [][NextPct]_vars

\* --------------------------------------- the functions of utils.py on their own
\* timestamp texts: well-formed ones, a date without a time, an hour 24, and
\* well-formed ones followed by one more character
TimeTexts ==
    {<<d, h, 0, 0>> : d \in 1..MaxCallDay, h \in {0, 1, 23}}
      \cup {<<1>>, <<1, 24, 0, 0>>, <<1, 0, 0, 0, 5>>, <<MaxCallDay, 0, 0, 0, 5>>}

PathSet == {[chain |-> "sol", date |-> d, suffix |-> ".parquet"] : d \in 1..2}

PathLists == UNION {[1..n -> PathSet] : n \in 0..MaxPaths}

InitUtil ==
    /\ source = SourceFiles
    /\ today = FirstToday
    /\ config = [init_enabled |-> FALSE, tokens |-> TokenList(<<"BAD">>)]
    /\ pc = "idle"
    /\ init_mode = FALSE
    /\ days = <<>>
    /\ window = NoWindow
    /\ chain_idx = 1
    /\ dex_usage_hourly = {}
    /\ dex_usage_daily = {}
    /\ dex_usage_total = {}
    /\ etl_run_log = {}
    /\ etl_run_log_seq = 1
    /\ temp_dex_data = FALSE
    /\ last = NoAttempt
    /\ faults = 0
    /\ call = NoCall

CallLocator ==
    /\ \E chain_id \in Range(ChainList) : \E begin_time \in TimeTexts :
         \E end_time \in TimeTexts :
            call' = [fn |-> "get_parquet_files", chain_id |-> chain_id,
                     begin_time |-> begin_time, end_time |-> end_time,
                     result |-> get_parquet_files(chain_id, begin_time, end_time)]
    /\ UNCHANGED <<source, today, config, pc, init_mode, days, window, chain_idx,
                   tables, last, faults>>

CallBuilder ==
    /\ \E file_paths \in PathLists : \E file_format \in {"parquet", "ndjson"} :
            call' = [fn |-> "generate_union_sql", file_paths |-> file_paths,
                     file_format |-> file_format,
                     result |-> generate_union_sql(file_paths, file_format)]
    /\ UNCHANGED <<source, today, config, pc, init_mode, days, window, chain_idx,
                   tables, last, faults>>

NextUtil == CallLocator \/ CallBuilder

SpecUtil == InitUtil /\ [][NextUtil]_vars

\* ================================================================ claims
\* a step that is one iteration of the chain loop
IsAttempt == etl_run_log_seq' # etl_run_log_seq

ChainTotal(table, chain_id) == {e \in table : e.chain_id = chain_id}

UsageSum(rows) == SumF([r \in rows |-> r.usage_count], rows)

\* the iteration ran load_data to its end and the total frame had rows
MergeCompleted(a) == a.outcome = "success" /\ ~a.total_df.none /\ a.total_df.rows # {}

\* C1: the total merge is additive: when load_data returns, every window row
\* whose (chain_id, dex_name) was already stored leaves usage_count,
\* total_weight and unique_orders at the stored value plus the window value.
C1_TotalMergeAdditive ==
    [][ (IsAttempt /\ MergeCompleted(last'))
        => \A w \in last'.total_df.rows : \A e \in dex_usage_total :
             SameTotalKey(e, w)
             => \E n \in dex_usage_total' :
                  /\ SameTotalKey(n, w)
                  /\ n.usage_count = e.usage_count + w.usage_count
                  /\ n.total_weight = e.total_weight + w.total_weight
                  /\ n.unique_orders = e.unique_orders + w.unique_orders ]_vars

\* a merge has just added a window row onto a row stored by an earlier run
C1_Witness ==
    /\ MergeCompleted(last)
    /\ \E w \in last.total_df.rows : \E e \in dex_usage_total :
         /\ SameTotalKey(e, w)
         /\ e.usage_count > w.usage_count
         /\ e.total_weight > w.total_weight
         /\ e.unique_orders > w.unique_orders

\* n * 100 / d rounded half-up to two decimals, said without the division:
\* p hundredths is the value whose distance to the exact share is at most
\* half a hundredth, the tie going up
IsHalfUp(p, n, d) ==
    /\ 2 * (p * d - 10000 * n) <= d
    /\ 2 * (10000 * n - p * d) < d

\* C2: after a total merge for chain c completes, every stored total row of
\* chain c, also of a dex absent from the window, has percentage equal to
\* usage_count * 100 / (sum of usage_count of the chain) rounded half-up to
\* two decimals, computed from the counts after the merge.
C2_PercentagesRecomputed ==
    MergeCompleted(last)
    => \A e \in ChainTotal(dex_usage_total, last.chain_id) :
         IsHalfUp(e.percentage, e.usage_count,
                  UsageSum(ChainTotal(dex_usage_total, last.chain_id)))

\* a merge completed while the chain holds a dex that the window lacks, with
\* another chain's rows in the table
C2_Witness ==
    /\ MergeCompleted(last)
    /\ \E e \in ChainTotal(dex_usage_total, last.chain_id) :
         \A w \in last.total_df.rows : w.dex_name # e.dex_name
    /\ \E o \in dex_usage_total : o.chain_id # last.chain_id

\* the ledger row of the latest iteration, if its INSERT went through
LastRunId == etl_run_log_seq - 1

\* an earlier attempt for the same chain and date was ledgered success with
\* the same number of records: the same extraction, loaded once already
LoadedBefore(a) ==
    \E row \in etl_run_log :
       /\ row.run_id < LastRunId
       /\ row.chain_id = a.chain_id /\ row.run_date = a.run_date
       /\ row.status = "success"
       /\ row.records_processed = Rows(a.hourly_df) + Rows(a.daily_df)

FrameDates(df) == {r.date : r \in df.rows}

StoredFor(table, chain_id, dates) ==
    {r \in table : r.chain_id = chain_id /\ r.date \in dates}

\* C3 (as claimed): loading the hourly and daily frames a second time for the
\* same (chain_id, run_date) with identical extracted input succeeds and
\* leaves exactly the rows of the input stored, no duplicates.
C3_ReloadIdempotent ==
    ( /\ faults = 0
      /\ last.outcome # "none"
      /\ Rows(last.hourly_df) > 0 /\ Rows(last.daily_df) > 0
      /\ LoadedBefore(last) )
    => /\ last.outcome = "success"
       /\ StoredFor(dex_usage_hourly, last.chain_id, FrameDates(last.hourly_df))
            = last.hourly_df.rows
       /\ StoredFor(dex_usage_daily, last.chain_id, FrameDates(last.daily_df))
            = last.daily_df.rows

\* the leaf rows of the given days of a chain that pass the exclusion filter
LeavesOfDays(chain_id, dates, tokens) ==
    dex_final(ViewRows([i \in 1..Len(dates) |->
                          [format |-> "parquet",
                           path |-> [chain |-> chain_id, date |-> dates[i],
                                     suffix |-> ".parquet"]]]),
              ExclusionFilter(tokens.list))

CountOf(leaves, dex) == Cardinality({l \in leaves : StripQuotes(l.dex_name) = dex})

DexesOf(leaves) == {StripQuotes(l.dex_name) : l \in leaves}

TotalMatches(table, chain_id, leaves) ==
    /\ {e.dex_name : e \in ChainTotal(table, chain_id)} = DexesOf(leaves)
    /\ \A e \in ChainTotal(table, chain_id) :
         /\ e.usage_count = CountOf(leaves, e.dex_name)
         /\ IsHalfUp(e.percentage, e.usage_count, Cardinality(leaves))

\* the first run on empty tables was a backfill of days d, d + 1 for the
\* chain, both with source files, each processed once and ledgered success
TwoDaysDone(chain_id, d) ==
    /\ pc = "finish" /\ init_mode /\ faults = 0
    /\ ~config.tokens.isNone /\ config.tokens.list # <<>>
    /\ etl_run_log_seq = 1 + 2 * Len(ChainList)
    /\ \A row \in etl_run_log : row.status = "success"
    /\ {row.run_date : row \in etl_run_log} = {d, d + 1}
    /\ HasFiles([chain |-> chain_id, date |-> d])
    /\ HasFiles([chain |-> chain_id, date |-> d + 1])

\* C4 (as claimed): after two consecutive source days of one chain are
\* processed once each, oldest first, from empty tables, the stored total
\* usage_count of each dex is the number of its leaf rows over the two days,
\* each day counted once, and percentage is that count * 100 / the sum,
\* rounded to two decimals.
C4_TwoDayTotals ==
    \A c \in Range(ChainList) : \A d \in 1..MaxToday :
       TwoDaysDone(c, d)
       => TotalMatches(dex_usage_total, c, LeavesOfDays(c, <<d, d + 1>>, config.tokens))

\* C5 (as claimed): every iteration of the chain loop writes exactly one
\* ledger row for its (chain, run_date), with status failed and the text of
\* the error when extraction or load raised, and the loop goes on to the next
\* chain or date.
C5_OneLedgerRowPerAttempt ==
    [][ IsAttempt
        => /\ \E row \in etl_run_log' :
                /\ row \notin etl_run_log
                /\ etl_run_log' = etl_run_log \cup {row}
                /\ row.chain_id = last'.chain_id
                /\ row.run_date = last'.run_date
                /\ (last'.error # NoError
                      => row.status = "failed" /\ row.error_message = last'.error)
           /\ pc' # "idle" ]_vars

\* the rows the view of an iteration held
WindowSelects(a) ==
    generate_union_sql_from_parquet(
        get_parquet_files(a.chain_id, a.begin_time, a.end_time).files).selects

WindowRows(a) == ViewRows(WindowSelects(a))

\* the iteration got as far as a view over existing files
ViewBuilt(a) == a.outcome # "none" /\ a.fault # "read" /\ ViewBinds(WindowSelects(a))

TokensOf(a) == Range(a.tokens.list)

HasLeaves(v) == dex_final({v}, <<>>) # {}

\* whether a frame would be another one without view row v
InHourly(a, rows, v) ==
    /\ ~a.hourly_df.none
    /\ a.hourly_df.rows
         # HourlyQuery(a.chain_id, rows \ {v}, ExclusionFilter(a.tokens.list))

InDaily(a, rows, v) ==
    /\ ~a.daily_df.none
    /\ a.daily_df.rows
         # DailyQuery(a.chain_id, rows \ {v}, ExclusionFilter(a.tokens.list))

InTotal(a, rows, v) ==
    /\ ~a.total_df.none
    /\ a.total_df.rows
         # TotalQuery(a.chain_id, rows \ {v}, ExclusionFilter(a.tokens.list))

InAll(a, rows, v) == InHourly(a, rows, v) /\ InDaily(a, rows, v) /\ InTotal(a, rows, v)

InNone(a, rows, v) ==
    ~InHourly(a, rows, v) /\ ~InDaily(a, rows, v) /\ ~InTotal(a, rows, v)

MatchesToken(v, t) == v.rec.inputToken = t \/ v.rec.outputToken = t

MatchesSome(a, v) == \E t \in TokensOf(a) : MatchesToken(v, t)

MatchesAll(a, v) == \A t \in TokensOf(a) : MatchesToken(v, t)

InputIsEveryToken(a, v) == \A t \in TokensOf(a) : v.rec.inputToken = t

\* the three passes of the iteration all ran and gave a frame
AllFrames(a) ==
    ViewBuilt(a) /\ ~a.hourly_df.none /\ ~a.daily_df.none /\ ~a.total_df.none

\* C6 (as claimed): a record whose input token equals every excluded token is
\* in none of the three aggregations, and a record whose input or output
\* token matches only some, not all, of the excluded tokens is in all three.
C6_ExcludedOnlyIfAllMatch ==
    AllFrames(last)
    => \A v \in WindowRows(last) :
         HasLeaves(v)
         => /\ InputIsEveryToken(last, v) => InNone(last, WindowRows(last), v)
            /\ (MatchesSome(last, v) /\ ~MatchesAll(last, v))
                 => InAll(last, WindowRows(last), v)

\* C6 (amended): a record whose input or output token equals at least one
\* excluded token is in none of the three aggregations; matching only some
\* of the tokens does not keep it in.
C6_ExcludedIfAnyMatch ==
    ViewBuilt(last)
    => \A v \in WindowRows(last) :
         MatchesSome(last, v) => InNone(last, WindowRows(last), v)

\* an extraction under two excluded tokens met a record with leaves that
\* matches one of them and not the other, and a record that it kept
C6_Witness ==
    /\ AllFrames(last)
    /\ Cardinality(TokensOf(last)) = 2
    /\ \E v \in WindowRows(last) :
         HasLeaves(v) /\ MatchesSome(last, v) /\ ~MatchesAll(last, v)
    /\ \E k \in WindowRows(last) : InAll(last, WindowRows(last), k)

\* inputToken != t as SQL decides it: true only of a non-NULL, other value
SqlDiffers(tok, t) == tok # NullToken /\ tok # t

KeptAsClaimed(a, rows) ==
    {v \in rows :
       /\ v.rec.request # NullRequest
       /\ \A t \in TokensOf(a) :
            SqlDiffers(v.rec.inputToken, t) /\ SqlDiffers(v.rec.outputToken, t)}

\* C7 (as claimed): extraction keeps a record iff its payload is non-null and
\* for every excluded token t both inputToken != t and outputToken != t hold,
\* with the same filter in the hourly, daily and total pass: each frame is
\* the aggregate of the leaves of exactly those records.
C7_KeepsIffNoTokenMatches ==
    (ViewBuilt(last) /\ last.fault = "none" /\ ~last.tokens.isNone)
    => /\ last.hourly_df
            = Frame(HourlyStats(last.chain_id,
                                dex_final(KeptAsClaimed(last, WindowRows(last)), <<>>)))
       /\ last.daily_df
            = Frame(DailyStats(last.chain_id,
                               dex_final(KeptAsClaimed(last, WindowRows(last)), <<>>)))
       /\ last.total_df
            = Frame(TotalStats(last.chain_id,
                               dex_final(KeptAsClaimed(last, WindowRows(last)), <<>>)))

\* C8: no step lowers a stored total usage_count or removes a total row.
C8_TotalNeverDecreases ==
    [][ \A e \in dex_usage_total :
          \E n \in dex_usage_total' :
             SameTotalKey(n, e) /\ n.usage_count >= e.usage_count ]_vars

\* a later merge has raised the count of one stored dex and passed over
\* another stored dex that its window lacks
C8_Witness ==
    /\ MergeCompleted(last)
    /\ \E e \in ChainTotal(dex_usage_total, last.chain_id) :
         /\ e.first_seen < last.run_date
         /\ \E w \in last.total_df.rows :
              w.dex_name = e.dex_name /\ e.usage_count > w.usage_count
    /\ \E k \in ChainTotal(dex_usage_total, last.chain_id) :
         /\ k.first_seen < last.run_date
         /\ \A w \in last.total_df.rows : w.dex_name # k.dex_name

StoredSum(table, chain_id, date) == UsageSum(StoredFor(table, chain_id, {date}))

AllDates == 1..(MaxToday + 1)

HourlyMatchesDaily ==
    \A c \in Range(ChainList) : \A d \in AllDates :
       StoredSum(dex_usage_hourly, c, d) = StoredSum(dex_usage_daily, c, d)

NoFailureSoFar ==
    /\ faults = 0
    /\ \A row \in etl_run_log : row.status = "success"

PercentSum(rows) == SumF([r \in rows |-> r.percentage], rows)

OfDate(df, d) == {r \in df.rows : r.date = d}

Distance(x, y) == IF x >= y THEN x - y ELSE y - x

RoundedShares(rows) ==
    \A r \in rows : IsHalfUp(r.percentage, r.usage_count, UsageSum(rows))

\* C10 (as claimed): the daily percentages of one date of one extraction,
\* each usage_count * 100 / (date total) rounded half-up to two decimals,
\* sum to 100.00 within 0.01, for any number of dexes and any positive counts.
C10_DailySumWithinOneCent ==
    \A d \in FrameDates(last.daily_df) :
       /\ RoundedShares(OfDate(last.daily_df, d))
       /\ Distance(PercentSum(OfDate(last.daily_df, d)), 10000) <= 1

\* C10 (amended): each daily percentage is the half-up rounded share, and the
\* percentages of one date sum to 100.00 within 0.005 times the number of dex
\* rows of that date (within 0.01 only up to three dexes).
C10_DailySumWithinHalfCentPerDex ==
    \A d \in FrameDates(last.daily_df) :
       /\ RoundedShares(OfDate(last.daily_df, d))
       /\ 2 * Distance(PercentSum(OfDate(last.daily_df, d)), 10000)
            <= Cardinality(OfDate(last.daily_df, d))

\* an extraction gave a date whose percentages miss 100.00 by more than 0.01
C10_Witness ==
    \E d \in FrameDates(last.daily_df) :
       /\ Cardinality(OfDate(last.daily_df, d)) >= 5
       /\ Distance(PercentSum(OfDate(last.daily_df, d)), 10000) >= 2

\* the latest outside call was the locator, resp. with two texts that parse
LocatorCalled == call.fn = "get_parquet_files"

BothParse ==
    /\ LocatorCalled
    /\ StrptimeError(call.begin_time) = NoError
    /\ StrptimeError(call.end_time) = NoError

BeginDay == Strptime(call.begin_time).day

EndDay == Strptime(call.end_time).day

BeginAfterEnd == Before(Strptime(call.end_time), Strptime(call.begin_time))

\* C11 (as claimed): for well-formed begin_time <= end_time, whatever their
\* times of day, the locator returns days_between(begin date, end date) + 1
\* patterns.
C11_OnePatternPerCalendarDay ==
    (BothParse /\ ~BeginAfterEnd)
    => /\ call.result.ok
       /\ Len(call.result.files) = (EndDay - BeginDay) + 1

\* the text of the error is the format message around a strptime message
IsFormatError(err) == Len(err) > 0 /\ err[1] = FormatErrorText(<<>>)[1]

\* C12 (as claimed): the locator raises the range error and returns no
\* pattern when begin_time > end_time, raises the format error, another error
\* than the range error, when either text does not parse as
\* YYYY-MM-DD HH:MM:SS, and returns no partial list in either case.
C12_RangeAndFormatErrors ==
    LocatorCalled
    => /\ (BothParse /\ BeginAfterEnd)
            => /\ ~call.result.ok /\ call.result.files = <<>>
               /\ call.result.err = RangeErrorText
       /\ ~BothParse
            => /\ ~call.result.ok /\ call.result.files = <<>>
               /\ IsFormatError(call.result.err)
               /\ call.result.err # RangeErrorText

BuilderCalled == call.fn = "generate_union_sql"

RowsOfPath(path) == Len(source[path.chain][path.date])

\* C13: generate_union_sql raises on an empty sequence; otherwise the relation
\* is one read per listed pattern in input order, a pattern listed twice read
\* twice, and holds every row of every read (UNION ALL).
C13_OneReadPerPattern ==
    BuilderCalled
    => IF Len(call.file_paths) = 0
       THEN ~call.result.ok /\ call.result.selects = <<>>
       ELSE /\ call.result.ok
            /\ Len(call.result.selects) = Len(call.file_paths)
            /\ \A i \in 1..Len(call.file_paths) :
                  /\ call.result.selects[i].path = call.file_paths[i]
                  /\ call.result.selects[i].format = call.file_format
            /\ Cardinality(ViewRows(call.result.selects))
                 = SumF([i \in 1..Len(call.file_paths) |->
                           RowsOfPath(call.file_paths[i])],
                        1..Len(call.file_paths))

\* the builder was given a pattern twice, with another one in between
C13_Witness ==
    /\ BuilderCalled
    /\ Len(call.file_paths) = 3
    /\ call.file_paths[1] = call.file_paths[3]
    /\ call.file_paths[1] # call.file_paths[2]
    /\ call.result.ok
    /\ Cardinality(ViewRows(call.result.selects))
         = 2 * RowsOfPath(call.file_paths[1]) + RowsOfPath(call.file_paths[2])

\* C14: run_id values are strictly increasing in insertion order and never
\* reused: a step never removes a ledger row, adds at most one, and the row
\* it adds has a run_id above that of every row already there, also after an
\* INSERT that failed with the counter advanced, after a restart of the
\* process and after a run of init_database.
C14_RunIdsIncrease ==
    [][ /\ etl_run_log \subseteq etl_run_log'
        /\ Cardinality(etl_run_log' \ etl_run_log) <= 1
        /\ \A n \in etl_run_log' \ etl_run_log :
              /\ n.run_id < etl_run_log_seq'
              /\ \A e \in etl_run_log : n.run_id > e.run_id ]_vars

\* a sequence value was spent on an INSERT that failed, init_database has run
\* again, and later runs have added two rows above the spent value
C14_Witness ==
    /\ call.fn = "init_database"
    /\ \E n \in 1..MaxRunId :
         /\ \A e \in etl_run_log : e.run_id # n
         /\ \E a \in etl_run_log : \E b \in etl_run_log :
              n < a.run_id /\ a.run_id < b.run_id

\* the ledger row a step has added
NewRows == etl_run_log' \ etl_run_log

\* the window of the iteration has a day without source files, or the read
\* of the relation failed
NoSource(a) == a.fault = "read" \/ ~ViewBinds(WindowSelects(a))

AllNone(a) == a.hourly_df.none /\ a.daily_df.none /\ a.total_df.none

\* C15: the ledger row of a successful attempt carries the number of hourly
\* rows plus the number of daily rows extracted in it; when the source has no
\* matching files or the read of the relation fails, the three results are
\* the no-data sentinel, no table changes, and the row is success with 0.
C15_RecordsProcessed ==
    [][ IsAttempt
        => /\ last'.outcome = "success"
                => \E row \in NewRows :
                     /\ row.status = "success"
                     /\ row.records_processed
                          = Cardinality(last'.hourly_df.rows)
                            + Cardinality(last'.daily_df.rows)
           /\ NoSource(last')
                => /\ AllNone(last')
                   /\ UNCHANGED <<dex_usage_hourly, dex_usage_daily, dex_usage_total>>
                   /\ \E row \in NewRows :
                        row.status = "success" /\ row.records_processed = 0 ]_vars

\* an attempt on a window without source files was ledgered success with 0
\* records after an earlier attempt had stored rows, ledgered with their count
C15_Witness ==
    /\ last.outcome = "success" /\ last.fault = "none"
    /\ ~ViewBinds(WindowSelects(last))
    /\ dex_usage_hourly # {}
    /\ \E row \in etl_run_log :
         /\ row.run_id = LastRunId /\ row.status = "success"
         /\ row.records_processed = 0
    /\ \E row \in etl_run_log :
         row.status = "success" /\ row.records_processed > 0

QueryFaults == {"hourly_q", "daily_q", "total_q"}

\* the frame a pass gives when its query runs
PassFrame(a, pass) ==
    IF pass = "hourly_q"
    THEN Frame(HourlyQuery(a.chain_id, WindowRows(a), ExclusionFilter(a.tokens.list)))
    ELSE IF pass = "daily_q"
    THEN Frame(DailyQuery(a.chain_id, WindowRows(a), ExclusionFilter(a.tokens.list)))
    ELSE Frame(TotalQuery(a.chain_id, WindowRows(a), ExclusionFilter(a.tokens.list)))

FrameOf(a, pass) ==
    IF pass = "hourly_q" THEN a.hourly_df
    ELSE IF pass = "daily_q" THEN a.daily_df ELSE a.total_df

\* exactly one of the three queries of the iteration raised
OneQueryRaised(a) ==
    /\ ViewBuilt(a) /\ a.fault \in QueryFaults
    /\ ~a.tokens.isNone /\ a.tokens.list # <<>>

\* C16: when exactly one of the hourly, daily and total queries raises, that
\* result alone is the no-data sentinel, the other two are the frames their
\* queries give, and extract_dex_usage does not raise: the view is dropped
\* and the attempt goes on to load_data and the ledger.
C16_PassesFailIndependently ==
    OneQueryRaised(last)
    => /\ \A pass \in QueryFaults :
            FrameOf(last, pass)
              = IF pass = last.fault THEN None ELSE PassFrame(last, pass)
       /\ extract_dex_usage(last.chain_id, last.begin_time, last.end_time,
                            last.tokens, last.fault).exc = NoError
       /\ ~temp_dex_data
       /\ last.outcome \in {"success", "failed"}
       /\ last.error \in {NoError, ConstraintText, IOErrorText}

\* the daily query alone raised: the hourly and total frames have rows and
\* were loaded
C16_Witness ==
    /\ OneQueryRaised(last) /\ last.fault = "daily_q"
    /\ last.daily_df.none
    /\ last.outcome = "success"
    /\ last.hourly_df.rows # {} /\ last.hourly_df.rows \subseteq dex_usage_hourly
    /\ last.total_df.rows # {} /\ dex_usage_total # {}
    /\ dex_usage_daily = {}

\* C17 (as claimed): the view temp_dex_data does not exist after any call of
\* extract_dex_usage, whether it returns frames, returns early with no data,
\* has a pass fail, or lets an exception escape.
C17_ViewNeverOutlivesCall == ~temp_dex_data

\* C18: load_data leaves a table as it was when the input for that table is
\* the no-data sentinel or has no rows, the rows stored for the attempt's
\* (chain_id, run_date) included; so for hourly, daily and total.
C18_EmptyInputIsNoOp ==
    [][ IsAttempt
        => /\ last'.hourly_df.rows = {} => UNCHANGED dex_usage_hourly
           /\ last'.daily_df.rows = {} => UNCHANGED dex_usage_daily
           /\ last'.total_df.rows = {} => UNCHANGED dex_usage_total ]_vars

\* load_data ran with the hourly input None while hourly rows of the same
\* (chain_id, run_date) were stored, and they still are; an earlier attempt on
\* a chain with source files had three frames without rows
C18_Witness ==
    /\ last.fault = "hourly_q" /\ last.hourly_df.none /\ ~last.daily_df.none
    /\ \E r \in dex_usage_hourly :
         r.chain_id = last.chain_id /\ r.date = last.run_date
    /\ \E row \in etl_run_log :
         /\ row.status = "success" /\ row.records_processed = 0
         /\ HasFiles([chain |-> row.chain_id, date |-> row.run_date])
         /\ HasFiles([chain |-> row.chain_id, date |-> row.run_date + 1])

\* the hourly INSERT of the step meets a stored row of another date
HourlyConflict ==
    \E n \in last'.hourly_df.rows : \E e \in dex_usage_hourly :
       SameHourlyKey(n, e) /\ e.date # last'.run_date

LedgeredFailed ==
    /\ last'.outcome = "failed"
    /\ \E row \in NewRows :
         row.status = "failed" /\ row.error_message = last'.error

StoredCount(table, w) ==
    IF \E e \in table : SameTotalKey(e, w)
    THEN (CHOOSE e \in table : SameTotalKey(e, w)).usage_count
    ELSE 0

\* the upsert loop got through the rows of done and no further
MergedUpTo(done) ==
    /\ \A w \in done :
         StoredCount(dex_usage_total', w)
           = StoredCount(dex_usage_total, w) + w.usage_count
    /\ \A w \in last'.total_df.rows \ done :
         StoredCount(dex_usage_total', w) = StoredCount(dex_usage_total, w)

\* C19: the sub-loads are not one transaction: when the daily load raises,
\* the hourly rows written by the same load_data call stay stored; when the
\* total merge raises, the hourly and daily rows stay stored and the total
\* rows the loop had merged keep their added counts; the attempt is ledgered
\* failed.
C19_NoRollbackAcrossTables ==
    [][ IsAttempt
        => /\ (last'.error = ConstraintText /\ ~HourlyConflict)
                => /\ last'.hourly_df.rows \subseteq dex_usage_hourly'
                   /\ UNCHANGED dex_usage_total
                   /\ LedgeredFailed
           /\ last'.error = IOErrorText
                => /\ last'.hourly_df.rows \subseteq dex_usage_hourly'
                   /\ last'.daily_df.rows \subseteq dex_usage_daily'
                   /\ \E done \in SUBSET last'.total_df.rows :
                        done # last'.total_df.rows /\ MergedUpTo(done)
                   /\ LedgeredFailed ]_vars

\* the total merge raised after its loop had added a window row onto a
\* stored row: the count is up and the percentages of the chain are those of
\* before; the hourly and daily rows of the call are stored and the ledger
\* row is failed
C19_Witness ==
    /\ last.error = IOErrorText /\ last.outcome = "failed"
    /\ last.hourly_df.rows # {} /\ last.hourly_df.rows \subseteq dex_usage_hourly
    /\ last.daily_df.rows # {} /\ last.daily_df.rows \subseteq dex_usage_daily
    /\ \E w \in last.total_df.rows :
         StoredCount(dex_usage_total, w) > w.usage_count
    /\ \E e \in ChainTotal(dex_usage_total, last.chain_id) :
         ~IsHalfUp(e.percentage, e.usage_count,
                   UsageSum(ChainTotal(dex_usage_total, last.chain_id)))
    /\ \E row \in etl_run_log : row.run_id = LastRunId /\ row.status = "failed"

\* the counters of the stored row of w's key, zeros if there is none
StoredCounters(table, w) ==
    IF \E e \in table : SameTotalKey(e, w)
    THEN LET e == CHOOSE x \in table : SameTotalKey(x, w)
         IN <<e.usage_count, e.total_weight, e.unique_orders>>
    ELSE <<0, 0, 0>>

PlusWindow(c, w, times) ==
    <<c[1] + times * w.usage_count, c[2] + times * w.total_weight,
      c[3] + times * w.unique_orders>>

\* the table after the total frame of a is merged into it, to the end
MergedOnce(table, a) ==
    MergeTotal(table, a.total_df, a.run_date, a.total_df.rows).table

\* the ledger holds a success row for the (chain, date) of the step's attempt
AlreadySucceeded ==
    \E row \in etl_run_log :
       /\ row.chain_id = last'.chain_id /\ row.run_date = last'.run_date
       /\ row.status = "success"

\* C20: the total merge double-adds on a re-run: merging the same window
\* totals twice for one (chain_id, run_date) leaves usage_count, total_weight
\* and unique_orders of each window row at the value before plus twice the
\* window value; and an attempt for a (chain, date) that the ledger already
\* holds as success is not skipped: its merge adds the window once more.
C20_RemergeDoubleAdds ==
    /\ [](\A w \in last.total_df.rows :
            StoredCounters(MergedOnce(MergedOnce(dex_usage_total, last), last), w)
              = PlusWindow(StoredCounters(dex_usage_total, w), w, 2))
    /\ [][ (IsAttempt /\ AlreadySucceeded /\ MergeCompleted(last'))
            => \A w \in last'.total_df.rows :
                 StoredCounters(dex_usage_total', w)
                   = PlusWindow(StoredCounters(dex_usage_total, w), w, 1) ]_vars

\* the same (chain_id, run_date) was processed twice, both attempts ledgered
\* success, and every dex of the window is stored with twice its window
\* counters
C20_Witness ==
    /\ MergeCompleted(last)
    /\ \E a \in etl_run_log : \E b \in etl_run_log :
         /\ a.run_id < b.run_id /\ b.run_id = LastRunId
         /\ a.chain_id = last.chain_id /\ b.chain_id = last.chain_id
         /\ a.run_date = last.run_date /\ b.run_date = last.run_date
         /\ a.status = "success" /\ b.status = "success"
         /\ a.records_processed = b.records_processed
    /\ \A w \in last.total_df.rows :
         StoredCounters(dex_usage_total, w) = PlusWindow(<<0, 0, 0>>, w, 2)

\* the total rows a step has inserted under a key that was not stored
InsertedTotals ==
    {n \in dex_usage_total' : \A e \in dex_usage_total : ~SameTotalKey(e, n)}

\* the dates on which the extraction of a saw the dex
DatesOfDex(a, dex) == {r.date : r \in {x \in a.daily_df.rows : x.dex_name = dex}}

Earliest(dates) == CHOOSE d \in dates : \A o \in dates : d <= o

\* C21 (as claimed): a total row absent before the merge is inserted with
\* first_seen = run_date and the counters of the window; no later step
\* changes first_seen; and first_seen is the earliest date whose source data
\* went into the row.
C21_FirstSeenIsEarliest ==
    [][ /\ \A e \in dex_usage_total : \A n \in dex_usage_total' :
              SameTotalKey(e, n) => n.first_seen = e.first_seen
        /\ (IsAttempt /\ ~last'.daily_df.none)
              => \A n \in InsertedTotals :
                   /\ n.first_seen = last'.run_date
                   /\ \E w \in last'.total_df.rows :
                        /\ SameTotalKey(w, n)
                        /\ n.usage_count = w.usage_count
                        /\ n.total_weight = w.total_weight
                        /\ n.unique_orders = w.unique_orders
                   /\ DatesOfDex(last', n.dex_name) # {}
                   /\ n.first_seen = Earliest(DatesOfDex(last', n.dex_name)) ]_vars

\* init_database has run again and printed its row counts
Reinitialized == call.fn = "init_database"

\* C22: the ledger is append-only: no step of an ETL run and no run of
\* init_database removes a ledger row or changes one of its fields.
C22_LedgerAppendOnly == [][etl_run_log \subseteq etl_run_log']_vars

\* init_database ran over a ledger with rows, rows were added after it, and
\* the ledger holds a failed and a later row of one (chain, date)
C22_Witness ==
    /\ Reinitialized
    /\ call.counts[4] >= 1
    /\ Cardinality(etl_run_log) > call.counts[4]
    /\ \E a \in etl_run_log : \E b \in etl_run_log :
         /\ a.run_id < b.run_id
         /\ a.chain_id = b.chain_id /\ a.run_date = b.run_date
         /\ a.status # b.status

\* C23 (as claimed): the window that get_date_range builds and the locator
\* expands covers the single calendar day run_date, and every hourly and
\* daily row an attempt stores for (chain_id, run_date) has date = run_date,
\* so that the delete by (chain_id, run_date) removes what the insert puts
\* back.
C23_WindowIsRunDate ==
    last.outcome # "none"
    => /\ Len(get_parquet_files(last.chain_id, last.begin_time,
                                last.end_time).files) = 1
       /\ \A r \in last.hourly_df.rows \cup last.daily_df.rows :
            (r \in dex_usage_hourly \/ r \in dex_usage_daily)
            => r.date = last.run_date

\* the ledger row of sequence value i
RowOf(i) == CHOOSE row \in etl_run_log : row.run_id = i

BackfillAttempts == InitDays * Len(ChainList)

\* the backfill of a first run on an empty ledger has been through its loop
BackfillDone == pc = "finish" /\ init_mode

\* C24 (as claimed): a backfill of N days makes its attempts one after the
\* other for days_back = N, ..., 1 and, within a date, for the chains in
\* configured order: the ledger rows in run_id order are the chains in turn
\* for each date, the run dates never go down, and they are N consecutive
\* days.
C24_BackfillOrder ==
    BackfillDone
    => /\ \A i \in 1..BackfillAttempts : \E row \in etl_run_log : row.run_id = i
       /\ \A i \in 1..BackfillAttempts :
            /\ RowOf(i).chain_id = ChainList[((i - 1) % Len(ChainList)) + 1]
            /\ RowOf(i).run_date
                 = RowOf(1).run_date + ((i - 1) \div Len(ChainList))

TerminalRow(row) == row.status \in {"success", "failed"}

\* C25 (as claimed): every attempt ends exactly once, as success or as
\* failed: it adds one ledger row, never one with status running, a success
\* row only when extraction and load_data raised nothing, under a run_id no
\* stored row has, and it leaves the rows of earlier attempts for the same
\* (chain, date) as they are.
C25_EveryAttemptTerminal ==
    [][ IsAttempt
        => /\ etl_run_log \subseteq etl_run_log'
           /\ Cardinality(NewRows) = 1
           /\ \A row \in NewRows :
                /\ TerminalRow(row)
                /\ row.chain_id = last'.chain_id /\ row.run_date = last'.run_date
                /\ row.status = "success" <=> last'.error = NoError
                /\ \A e \in etl_run_log : e.run_id # row.run_id ]_vars

\* C26 (as claimed): the config is rewritten only by a backfill whose
\* attempts were all ledgered success: a backfill with a failed attempt
\* leaves init.enabled true, and a run in normal mode never writes the config.
C26_DisablesOnlyAfterSuccess ==
    [][ config' # config
        => /\ init_mode
           /\ ~config'.init_enabled
           /\ \A row \in etl_run_log : row.status = "success" ]_vars

\* C27: init_database on an initialized database changes no row of the four
\* tables and does not reset the sequence: the counts it prints are those of
\* the tables as they were, and a ledger row added after it has a run_id
\* above every run_id handed out before.
C27_InitDatabaseIdempotent ==
    [][ /\ (call' # call /\ call'.fn = "init_database")
              => /\ UNCHANGED <<dex_usage_hourly, dex_usage_daily, dex_usage_total,
                                etl_run_log, etl_run_log_seq>>
                 /\ call'.counts = <<Cardinality(dex_usage_hourly),
                                     Cardinality(dex_usage_daily),
                                     Cardinality(dex_usage_total),
                                     Cardinality(etl_run_log)>>
        /\ Reinitialized
              => \A n \in NewRows :
                   /\ n.run_id >= etl_run_log_seq
                   /\ \A e \in etl_run_log : n.run_id > e.run_id ]_vars

\* init_database ran over four tables with rows, and a later run has added
\* ledger rows to those it found
C27_Witness ==
    /\ Reinitialized
    /\ \A i \in 1..4 : call.counts[i] >= 1
    /\ Cardinality(dex_usage_hourly) >= call.counts[1]
    /\ Cardinality(etl_run_log) >= call.counts[4] + Len(ChainList)
    /\ \A row \in etl_run_log : row.run_id < etl_run_log_seq

\* every record of the window with a payload, whatever its tokens
WithPayload(rows) == {v \in rows : v.rec.request # NullRequest}

\* C28 (as claimed): with an empty excluded_tokens list the filter has no
\* clause: extraction keeps every record with a non-null payload and returns
\* the hourly, daily and total aggregates of their leaves, not the no-data
\* sentinel.
C28_EmptyListKeepsAll ==
    ( /\ ViewBuilt(last) /\ last.fault = "none"
      /\ ~last.tokens.isNone /\ last.tokens.list = <<>> )
    => /\ last.hourly_df
            = Frame(HourlyStats(last.chain_id,
                                dex_final(WithPayload(WindowRows(last)), <<>>)))
       /\ last.daily_df
            = Frame(DailyStats(last.chain_id,
                               dex_final(WithPayload(WindowRows(last)), <<>>)))
       /\ last.total_df
            = Frame(TotalStats(last.chain_id,
                               dex_final(WithPayload(WindowRows(last)), <<>>)))

\* rows a table holds for the chain and run_date of an attempt
RowsFor(table, a) == {r \in table : r.chain_id = a.chain_id /\ r.date = a.run_date}

\* C29 (as claimed): the replace of dex_usage_hourly and dex_usage_daily is
\* all-or-nothing per table: when the INSERT of a delete-then-insert is
\* rejected on a primary-key conflict, the rows stored before for
\* (chain_id, run_date) are still in the table.
C29_FailedInsertKeepsRows ==
    [][ (IsAttempt /\ last'.error = ConstraintText)
          => /\ RowsFor(dex_usage_hourly, last') \subseteq dex_usage_hourly'
             /\ RowsFor(dex_usage_daily, last') \subseteq dex_usage_daily' ]_vars

OtherChains(table, chain_id) == {r \in table : r.chain_id # chain_id}

\* a total row whose dex has no row in the total frame of the attempt
OutsideWindow(e, a) ==
    /\ e.chain_id = a.chain_id
    /\ a.total_df.none \/ \A w \in a.total_df.rows : w.dex_name # e.dex_name

\* C30: frame of load_data for chain c and run_date d: the rows of every other
\* chain in dex_usage_hourly, dex_usage_daily and dex_usage_total are
\* unchanged, percentage included; a row that leaves dex_usage_hourly or
\* dex_usage_daily has chain_id = c and date = d; and a total row of chain c
\* whose dex is not in the window keeps usage_count, total_weight,
\* unique_orders and first_seen.
C30_LoadDataFrame ==
    [][ IsAttempt
          => /\ OtherChains(dex_usage_hourly', last'.chain_id)
                  = OtherChains(dex_usage_hourly, last'.chain_id)
             /\ OtherChains(dex_usage_daily', last'.chain_id)
                  = OtherChains(dex_usage_daily, last'.chain_id)
             /\ OtherChains(dex_usage_total', last'.chain_id)
                  = OtherChains(dex_usage_total, last'.chain_id)
             /\ \A r \in (dex_usage_hourly \ dex_usage_hourly')
                          \cup (dex_usage_daily \ dex_usage_daily') :
                   r.chain_id = last'.chain_id /\ r.date = last'.run_date
             /\ \A e \in dex_usage_total :
                   OutsideWindow(e, last')
                     => \E n \in dex_usage_total' :
                          /\ SameTotalKey(e, n)
                          /\ n.usage_count = e.usage_count
                          /\ n.total_weight = e.total_weight
                          /\ n.unique_orders = e.unique_orders
                          /\ n.first_seen = e.first_seen ]_vars

\* a load ran to its end for a (chain, run_date) whose window was stored
\* before, with rows of another chain for the same date in both tables, rows
\* of the same chain for an earlier date, and a total row of the chain whose
\* dex is not in the window and whose percentage follows the new chain sum
C30_Witness ==
    /\ MergeCompleted(last)
    /\ \E row \in etl_run_log :
          /\ row.run_id < LastRunId /\ row.status = "success"
          /\ row.chain_id = last.chain_id /\ row.run_date < last.run_date
    /\ \E r \in OtherChains(dex_usage_hourly, last.chain_id) : r.date = last.run_date
    /\ \E r \in OtherChains(dex_usage_daily, last.chain_id) : r.date = last.run_date
    /\ OtherChains(dex_usage_total, last.chain_id) # {}
    /\ \E r \in dex_usage_hourly : r.chain_id = last.chain_id /\ r.date < last.run_date
    /\ \E e \in dex_usage_total :
          /\ OutsideWindow(e, last)
          /\ IsHalfUp(e.percentage, e.usage_count,
                      UsageSum(ChainTotal(dex_usage_total, last.chain_id)))

====
